---------------------------- MODULE Spec2Model ----------------------------
(***************************************************************************)
(* Chunked upload: the chunk receiver (upload-chunk) and the two           *)
(* assemblers (finalize-upload/route.ts and its near-duplicate), over one  *)
(* file system.  Strings are sequences of one-character strings, paths are *)
(* sequences of path segments, file contents are sequences of bytes.       *)
(***************************************************************************)
EXTENDS Integers, Sequences, FiniteSets, TLC

\* ------------------------------------------------------------ bounds
\* calls made in one behaviour
MaxCalls == 3
\* chunk indices 0..NChunks-1 are offered to the receiver in canonical form
NChunks == 2
\* infrastructure failures (stream open/write, rm) injected in one request
MaxFaults == 1

\* ------------------------------------------------------------ constants
MAX_CHUNKS == 1000

\* ------------------------------------------------------------ strings
Lower == {"a","b","c","d","e","f","g","h","i","j","k","l","m",
          "n","o","p","q","r","s","t","u","v","w","x","y","z"}
Upper == {"A","B","C","D","E","F","G","H","I","J","K","L","M",
          "N","O","P","Q","R","S","T","U","V","W","X","Y","Z"}
DigitSeq == <<"0","1","2","3","4","5","6","7","8","9">>
Digits == {DigitSeq[k] : k \in 1..10}

\* the characters /[^a-zA-Z0-9-_]/g leaves in place
IdChars == Lower \cup Upper \cup Digits \cup {"-", "_"}

\* s.replace(/[^...]/g, ''): every character outside keep is dropped
StripOutside(s, keep) == SelectSeq(s, LAMBDA c : c \in keep)

SetMax(S) == CHOOSE m \in S : \A k \in S : k <= m

\* `${i}` for a non-negative integer i: its decimal digits, no leading zero
RECURSIVE ToDigits(_)
ToDigits(i) == IF i < 10 THEN <<DigitSeq[i + 1]>>
               ELSE ToDigits(i \div 10) \o <<DigitSeq[(i % 10) + 1]>>

\* ------------------------------------------------------------ paths
\* path.basename (posix): trailing slashes are skipped, then the text after
\* the last remaining slash is kept
Basename(path) ==
  LET nonSlash == {k \in 1..Len(path) : path[k] # "/"} IN
  IF nonSlash = {} THEN <<>>
  ELSE LET end    == SetMax(nonSlash)
           before == {k \in 1..end : path[k] = "/"}
           start  == IF before = {} THEN 1 ELSE SetMax(before) + 1
       IN  SubSeq(path, start, end)

\* path.normalize over segments: "" and "." vanish, ".." removes the segment
\* before it
RECURSIVE Normalize(_, _)
Normalize(done, rest) ==
  IF rest = <<>> THEN done
  ELSE LET seg == Head(rest) IN
       IF seg = <<>> \/ seg = <<".">> THEN Normalize(done, Tail(rest))
       ELSE IF seg = <<".", ".">>
            THEN Normalize(IF done = <<>> THEN done
                           ELSE SubSeq(done, 1, Len(done) - 1), Tail(rest))
            ELSE Normalize(Append(done, seg), Tail(rest))

\* path.join(dir, seg) for a segment that holds no slash
Join(dir, seg) == Normalize(<<>>, Append(dir, seg))

\* os.tmpdir(), process.cwd()
TmpDir == << <<"tmp">> >>
Cwd == << <<"srv">>, <<"app">> >>
\* path.join(os.tmpdir(), 'uploads'): the staging root
StagingRoot == Join(TmpDir, <<"uploads">>)
\* path.join(process.cwd(), 'public', 'uploads'): the destination root
UploadsDir == Join(Join(Cwd, <<"public">>), <<"uploads">>)

\* path.join(os.tmpdir(), 'uploads', safeUploadId)
TempDirOf(safeUploadId) == Join(StagingRoot, safeUploadId)
\* a variant of ReceiverChunkPath that leaves the index out of the name
ReceiverChunkPathShared(tempDir, safeChunkIndex) ==
  Join(tempDir, <<"chunk_">>)

\* path.join(tempDir, `chunk_${safeChunkIndex}`), the receiver's name
ReceiverChunkPath(tempDir, safeChunkIndex) ==
  Join(tempDir, <<"chunk_">> \o safeChunkIndex)
\* a variant of AssemblerChunkPath that counts chunks from 1
AssemblerChunkPathFromOne(tempDir, i) ==
  Join(tempDir, <<"chunk_">> \o ToDigits(i + 1))

\* path.join(tempDir, `chunk_${i}`), the assembler's name
AssemblerChunkPath(tempDir, i) == Join(tempDir, <<"chunk_">> \o ToDigits(i))

IsPrefix(a, b) == Len(a) <= Len(b) /\ SubSeq(b, 1, Len(a)) = a
Parent(path) == SubSeq(path, 1, Len(path) - 1)

\* ------------------------------------------------------------ file system
\* fs maps every existing path to its node
DirNode == [dir |-> TRUE, data |-> <<>>]
FileNode(bytes) == [dir |-> FALSE, data |-> bytes]

Exists(f, path) == path \in DOMAIN f
IsDir(f, path) == Exists(f, path) /\ f[path].dir
IsFile(f, path) == Exists(f, path) /\ ~f[path].dir

Prefixes(path) == {SubSeq(path, 1, k) : k \in 0..Len(path)}

\* mkdir(path, { recursive: true })
MkdirP(f, path) ==
  [q \in DOMAIN f \cup Prefixes(path) |-> IF q \in DOMAIN f THEN f[q] ELSE DirNode]

\* a variant of RmRf without recursive: a directory that holds something
\* stays
RmNotRecursive(f, path) ==
  IF \E r \in DOMAIN f : r # path /\ IsPrefix(path, r) THEN f
  ELSE [q \in DOMAIN f \ {path} |-> f[q]]

\* rm(path, { recursive: true, force: true })
RmRf(f, path) ==
  [q \in {r \in DOMAIN f : ~IsPrefix(path, r)} |-> f[q]]

\* open(path, 'w') can succeed: the parent is a directory and the path is not
CanOpenW(f, path) == path # <<>> /\ IsDir(f, Parent(path)) /\ ~IsDir(f, path)

\* a variant of OpenW that keeps the content of an existing file (flag 'a'
\* or 'r+' in place of 'w')
OpenKeep(f, path) ==
  [q \in DOMAIN f \cup {path} |->
     IF q = path /\ ~Exists(f, path) THEN FileNode(<<>>) ELSE f[q]]

\* open(path, 'w'): the file is created or truncated
OpenW(f, path) ==
  [q \in DOMAIN f \cup {path} |-> IF q = path THEN FileNode(<<>>) ELSE f[q]]

\* write(fd, bytes, position): bytes laid over the content at a 0-based
\* position; a gap before the position reads as zero bytes
RECURSIVE Zeros(_)
Zeros(n) == IF n <= 0 THEN <<>> ELSE <<0>> \o Zeros(n - 1)

WriteAt(old, pos, bytes) ==
  LET padded == old \o Zeros(pos - Len(old)) IN
  SubSeq(padded, 1, pos) \o bytes
    \o SubSeq(padded, pos + Len(bytes) + 1, Len(padded))

PWrite(f, path, pos, bytes) ==
  [f EXCEPT ![path] = FileNode(WriteAt(f[path].data, pos, bytes))]

RECURSIVE Flatten(_)
Flatten(chunks) ==
  IF chunks = <<>> THEN <<>> ELSE Head(chunks) \o Flatten(Tail(chunks))


\* ------------------------------------------------------------ JSON numbers
\* totalChunks as parsed from the request body: absent (undefined), or the
\* number int + 1/2 when half, else int
Undefined == [defined |-> FALSE, int |-> 0, half |-> FALSE]
Int_(n) == [defined |-> TRUE, int |-> n, half |-> FALSE]
Half(n) == [defined |-> TRUE, int |-> n, half |-> TRUE]
IsInteger(v) == v.defined /\ ~v.half

\* v > n, v < n and i < v as JavaScript evaluates them (a comparison with
\* undefined is false)
NumGt(v, n) == v.defined /\ (IF v.half THEN v.int >= n ELSE v.int > n)
NumLt(v, n) == v.defined /\ v.int < n
\* a variant of IntLtNum that lets the loop run one index further (i <= v)
IntLeNum(i, v) == v.defined /\ i <= v.int

IntLtNum(i, v) == v.defined /\ (IF v.half THEN i <= v.int ELSE i < v.int)

\* ------------------------------------------------------------ inputs
\* Requests vary in one field at a time around the well-formed ones.
NoFile == [present |-> FALSE, bytes |-> <<>>]
File(bytes) == [present |-> TRUE, bytes |-> bytes]

\* two well-formed session ids; ids that hold other characters; the empty id
GoodIds == { <<"s", "-", "1">>, <<"T", "_">> }
BadIds == { <<"s", "-", ".", "1">>, <<".", ".">>, <<>> }
\* the indices 0..NChunks-1 as i.toString() writes them; an index with a
\* leading zero; the empty string; a string with a letter
PlainIndexes == {ToDigits(i) : i \in 0..(NChunks - 1)}
BadIndexes == { <<>>, <<"1", "x">> }
Payloads == { <<7>>, <<8, 9>> }

ReceiveRequest(file, chunkIndex, uploadId) ==
  [file |-> file, chunkIndex |-> chunkIndex, uploadId |-> uploadId]

ReceiveRequests ==
  {ReceiveRequest(File(b), x, <<"s", "-", "1">>) : b \in Payloads, x \in PlainIndexes}
  \cup {ReceiveRequest(File(<<7>>), <<"0", "0">>, <<"s", "-", "1">>)}
  \cup {ReceiveRequest(File(<<7>>), <<"0">>, u) : u \in GoodIds \cup BadIds}
  \cup {ReceiveRequest(File(<<7>>), x, <<"s", "-", "1">>) : x \in BadIndexes}
  \cup {ReceiveRequest(f, <<"0">>, <<"s", "-", "1">>) : f \in {NoFile, File(<<>>)}}
  \cup {ReceiveRequest(File(<<7>>), <<"1", "x">>, <<"s", "-", ".", "1">>)}

\* a plain name; a name with directories before it; names whose last
\* segment is "..", "." or empty
GoodNames == { <<"o">>, <<".", ".", "/", ".", ".", "/", "p">> }
BadNames == { <<"d", "/", ".", ".">>, <<".">>, <<>> }
\* counts in range; out of range; not an integer; absent from the body
GoodCounts == {Int_(n) : n \in 1..NChunks} \cup {Int_(MAX_CHUNKS)}
BadCounts == {Int_(0), Int_(MAX_CHUNKS + 1), Half(1), Undefined}
\* the two assemblers
Impls == {"route.ts", "part_001"}

FinalizeRequest(impl, uploadId, fileName, totalChunks) ==
  [impl |-> impl, uploadId |-> uploadId, fileName |-> fileName,
   totalChunks |-> totalChunks]

FinalizeRequests ==
  {FinalizeRequest(m, <<"s", "-", "1">>, <<"o">>, n) :
     m \in Impls, n \in GoodCounts \cup BadCounts}
  \cup {FinalizeRequest(m, u, <<"o">>, Int_(1)) :
     m \in Impls, u \in GoodIds \cup BadIds}
  \cup {FinalizeRequest(m, <<"s", "-", "1">>, f, Int_(1)) :
     m \in Impls, f \in (GoodNames \cup BadNames) \ { <<"o">> }}

\* the requests' slots: one per call of a behaviour
Procs == 1..MaxCalls


\* ------------------------------------------------------------ state
VARIABLES
  fs,       \* the file system: existing path -> node
  calls,    \* per request slot: the handler's locals and where it stands
  ncalls,   \* requests started
  latest,   \* history: <<uploadId, chunkIndex>> -> the payload of the latest
            \* receive that returned success for it, and whether an
            \* earlier one had been accepted with another payload
  produced  \* history: destination path -> the content the file had when
            \* the latest finalize that returned success for it returned,
            \* and the totalChunks of that finalize

vars == <<fs, calls, ncalls, latest, produced>>

\* fs.WriteStream: st is the Writable's state, fd the descriptor's, buf the
\* chunks written to the stream and not yet in the file, of which the first
\* inflight are handed to the file system, pos the descriptor's position
NoStream == [st |-> "none", fd |-> "none", buf |-> <<>>, inflight |-> 0, pos |-> 0]

IdleCall ==
  [kind |-> "none", impl |-> "none", pc |-> "idle",
   uploadId |-> <<>>, chunkIndex |-> <<>>, file |-> NoFile,
   fileName |-> <<>>, totalChunks |-> Undefined,
   safeChunkIndex |-> <<>>, safeFileName |-> <<>>,
   tempDir |-> <<>>, finalFilePath |-> <<>>,
   i |-> 0, error |-> "none", response |-> "none", status |-> 0,
   ws |-> NoStream,
   \* history: the requests in progress when this one arrived, the file
   \* system when it arrived, the file system
   \* calls that changed something, whether the stream was made to fail,
   \* whether 'finish' was seen, the outcome of each rm, the first exception
   \* thrown (error is the one pending, which the outer catch logs)
   overlaps |-> {}, pre |-> <<>>, ops |-> {}, faulted |-> FALSE, finished |-> FALSE, rms |-> <<>>,
   cause |-> "none", nfaults |-> 0]

Op(name, path) == [op |-> name, path |-> path]

Settled(c) == c.pc \in {"idle", "done", "crashed"} /\ c.ws.fd \in {"none", "closed"}

\* one request at a time: a request starts when every earlier one has
\* returned and its stream has closed
Sequential == \A q \in Procs : Settled(calls[q])

FreeSlot(p) == \A r \in Procs : p <= r

Init ==
  /\ fs = MkdirP(MkdirP(<<>> :> DirNode, TmpDir), Cwd)
  /\ calls = [p \in Procs |-> IdleCall]
  /\ ncalls = 0
  /\ latest = <<>>
  /\ produced = <<>>

\* the outcomes an operation of request c that can fail may have
Outcomes(c) == IF c.nfaults < MaxFaults THEN {TRUE, FALSE} ELSE {TRUE}

\* c with the outcome counted
Counted(c, ok) == [c EXCEPT !.nfaults = IF ok THEN c.nfaults ELSE c.nfaults + 1]

Respond(c, body, code) == [c EXCEPT !.pc = "done", !.response = body, !.status = code]

\* ------------------------------------------------------------ upload-chunk
\* a variant of ReceiveStart that strips chunkIndex without comparing the
\* result to what was sent
ReceiveStartNoIndexCheck(c) ==
  LET safeUploadId   == StripOutside(c.uploadId, IdChars)
      safeChunkIndex == StripOutside(c.chunkIndex, Digits)
  IN  IF ~c.file.present \/ c.chunkIndex = <<>> \/ c.uploadId = <<>>
        THEN Respond(c, "Missing fields", 400)
      ELSE IF safeUploadId # c.uploadId
        THEN Respond(c, "Invalid uploadId", 400)
      ELSE [c EXCEPT !.pc = "mkdir", !.safeChunkIndex = safeChunkIndex,
                     !.tempDir = TempDirOf(safeUploadId)]

\* formData and the three validations, up to the call of mkdir
ReceiveStart(c) ==
  LET safeUploadId   == StripOutside(c.uploadId, IdChars)
      safeChunkIndex == StripOutside(c.chunkIndex, Digits)
  IN  IF ~c.file.present \/ c.chunkIndex = <<>> \/ c.uploadId = <<>>
        THEN Respond(c, "Missing fields", 400)
      ELSE IF safeUploadId # c.uploadId
        THEN Respond(c, "Invalid uploadId", 400)
      ELSE IF safeChunkIndex # c.chunkIndex
        THEN Respond(c, "Invalid chunkIndex", 400)
      ELSE [c EXCEPT !.pc = "mkdir", !.safeChunkIndex = safeChunkIndex,
                     !.tempDir = TempDirOf(safeUploadId)]

BeginReceive(p, file, chunkIndex, uploadId) ==
  /\ ncalls < MaxCalls /\ Sequential /\ FreeSlot(p)
  /\ ncalls' = ncalls + 1
  /\ calls' = [calls EXCEPT ![p] =
       ReceiveStart([IdleCall EXCEPT !.kind = "receive", !.file = file,
                       !.chunkIndex = chunkIndex, !.uploadId = uploadId,
                       !.pre = fs])]
  /\ UNCHANGED <<fs, latest, produced>>

\* await mkdir(tempDir, { recursive: true })
ReceiveMkdir(p) ==
  LET c == calls[p] IN
  /\ c.kind = "receive" /\ c.pc = "mkdir"
  /\ fs' = MkdirP(fs, c.tempDir)
  /\ calls' = [calls EXCEPT ![p] =
       [c EXCEPT !.pc = "open",
                 !.ops = IF Exists(fs, c.tempDir) THEN c.ops
                         ELSE c.ops \cup {Op("mkdir", c.tempDir)}]]
  /\ UNCHANGED <<ncalls, latest, produced>>

\* writeFile, first half: the chunk file is opened with 'w'
ReceiveOpen(p) ==
  LET c == calls[p]
      chunkPath == ReceiverChunkPath(c.tempDir, c.safeChunkIndex)
  IN
  /\ c.kind = "receive" /\ c.pc = "open"
  /\ IF CanOpenW(fs, chunkPath)
       THEN /\ fs' = OpenW(fs, chunkPath)
            /\ calls' = [calls EXCEPT ![p] =
                 [c EXCEPT !.pc = "write", !.ops = c.ops \cup {Op("open", chunkPath)}]]
       ELSE /\ fs' = fs
            /\ calls' = [calls EXCEPT ![p] = Respond(c, "Upload failed", 500)]
  /\ UNCHANGED <<ncalls, latest, produced>>

\* writeFile, second half: the buffer is written from position 0, and the
\* handler returns
ReceiveWrite(p) ==
  LET c == calls[p]
      chunkPath == ReceiverChunkPath(c.tempDir, c.safeChunkIndex)
  IN
  /\ c.kind = "receive" /\ c.pc = "write"
  /\ fs' = IF IsFile(fs, chunkPath) THEN PWrite(fs, chunkPath, 0, c.file.bytes) ELSE fs
  /\ calls' = [calls EXCEPT ![p] =
       Respond([c EXCEPT !.ops = c.ops \cup {Op("write", chunkPath)}], "success", 200)]
  /\ latest' =
       LET key == <<c.uploadId, c.chunkIndex>> IN
       [k \in DOMAIN latest \cup {key} |->
          IF k # key THEN latest[k]
          ELSE [bytes |-> c.file.bytes,
                replaced |-> key \in DOMAIN latest
                               /\ (latest[key].replaced \/ latest[key].bytes # c.file.bytes)]]
  /\ UNCHANGED <<ncalls, produced>>


\* ------------------------------------------------------------ the write stream
\* createWriteStream(path): the open is under way
NewStream == [st |-> "live", fd |-> "opening", buf |-> <<>>, inflight |-> 0, pos |-> 0]

\* writeStream.write(chunkData): handed to the file system at once when the
\* descriptor is open and idle, buffered otherwise
StreamWrite(ws, chunkData) ==
  [ws EXCEPT !.buf = Append(ws.buf, chunkData),
             !.inflight = IF ws.fd = "open" /\ ws.inflight = 0 THEN 1 ELSE ws.inflight]

\* writeStream.end()
StreamEnd(ws) == [ws EXCEPT !.st = "ended"]

\* writeStream.destroy(): what is buffered and not yet handed to the file
\* system is dropped; the descriptor closes once no operation is under way
StreamDestroy(ws) ==
  IF ws.st = "destroyed" THEN ws
  ELSE [ws EXCEPT !.st = "destroyed",
                  !.buf = SubSeq(ws.buf, 1, ws.inflight),
                  !.fd = IF ws.fd = "open" /\ ws.inflight = 0 THEN "closed" ELSE ws.fd]

\* the stream after an error of its own: destroyed and closed
StreamFailed(ws) ==
  [ws EXCEPT !.st = "destroyed", !.fd = "closed", !.buf = <<>>, !.inflight = 0]

\* ------------------------------------------------------------ finalize-upload
\* request.json and the totalChunks validation, up to the call of mkdir
FinalizeStart(c) ==
  IF NumGt(c.totalChunks, MAX_CHUNKS) \/ NumLt(c.totalChunks, 1)
    THEN Respond(c, "Invalid totalChunks", 400)
  ELSE [c EXCEPT !.pc = "mkdir",
                 !.safeFileName = Basename(c.fileName),
                 !.tempDir = TempDirOf(StripOutside(c.uploadId, IdChars))]

\* a throw inside the inner try: the finally block destroys the stream and
\* calls rm
EnterFinally(c, err) ==
  [c EXCEPT !.error = err, !.cause = err, !.ws = StreamDestroy(c.ws), !.pc = "rm"]

\* a variant of LoopHead that leaves the loop at a missing chunk instead of
\* throwing
LoopHeadBreakOnMissing(c, f) ==
  IF IntLtNum(c.i, c.totalChunks) /\ Exists(f, AssemblerChunkPath(c.tempDir, c.i))
    THEN [c EXCEPT !.pc = "read"]
    ELSE [c EXCEPT !.pc = "finish", !.ws = StreamEnd(c.ws)]

\* the head of the chunk loop, run until the handler next awaits: the loop
\* test, existsSync(chunkPath) and the call of readFile, or past the loop
\* writeStream.end() and the two listeners
LoopHead(c, f) ==
  IF IntLtNum(c.i, c.totalChunks)
    THEN IF Exists(f, AssemblerChunkPath(c.tempDir, c.i))
           THEN [c EXCEPT !.pc = "read"]
           ELSE EnterFinally(c, "Missing chunk")
    ELSE [c EXCEPT !.pc = "finish", !.ws = StreamEnd(c.ws)]

\* a variant of AfterMkdir that calls createWriteStream before it looks for
\* the staging directory
AfterMkdirStreamFirst(c, f) ==
  LET c1 == [c EXCEPT !.finalFilePath = Join(UploadsDir, c.safeFileName),
                      !.ws = NewStream] IN
  IF ~Exists(f, c1.tempDir)
    THEN Respond(c1, "Upload session not found", 404)
    ELSE LoopHead(c1, f)

\* after await mkdir(uploadsDir): existsSync(tempDir), createWriteStream and
\* the first pass through the loop head
AfterMkdir(c, f) ==
  LET c1 == [c EXCEPT !.finalFilePath = Join(UploadsDir, c.safeFileName)] IN
  IF ~Exists(f, c1.tempDir)
    THEN Respond(c1, "Upload session not found", 404)
    ELSE LoopHead([c1 EXCEPT !.ws = NewStream], f)

BeginFinalize(p, impl, uploadId, fileName, totalChunks) ==
  /\ ncalls < MaxCalls /\ Sequential /\ FreeSlot(p)
  /\ ncalls' = ncalls + 1
  /\ calls' = [calls EXCEPT ![p] =
       FinalizeStart([IdleCall EXCEPT !.kind = "finalize", !.impl = impl,
                        !.uploadId = uploadId, !.fileName = fileName,
                        !.totalChunks = totalChunks, !.pre = fs])]
  /\ UNCHANGED <<fs, latest, produced>>

\* await mkdir(uploadsDir, { recursive: true }) returns
FinalizeMkdir(p) ==
  LET c == calls[p] IN
  /\ c.kind = "finalize" /\ c.pc = "mkdir"
  /\ fs' = MkdirP(fs, UploadsDir)
  /\ calls' = [calls EXCEPT ![p] =
       AfterMkdir([c EXCEPT !.ops = IF Exists(fs, UploadsDir) THEN c.ops
                                    ELSE c.ops \cup {Op("mkdir", UploadsDir)}], fs')]
  /\ UNCHANGED <<ncalls, latest, produced>>

\* await readFile(chunkPath) returns: the chunk goes to the stream and the
\* loop moves on; the read throws when the file is gone by now
FinalizeRead(p) ==
  LET c == calls[p]
      chunkPath == AssemblerChunkPath(c.tempDir, c.i)
  IN
  /\ c.kind = "finalize" /\ c.pc = "read"
  /\ calls' = [calls EXCEPT ![p] =
       IF IsFile(fs, chunkPath)
         THEN LoopHead([c EXCEPT !.ws = StreamWrite(c.ws, fs[chunkPath].data),
                                 !.i = c.i + 1], fs)
         ELSE EnterFinally(c, "ENOENT")]
  /\ UNCHANGED <<fs, ncalls, latest, produced>>

\* 'finish': everything written is in the file; the promise resolves and the
\* finally block runs
FinalizeFinish(p) ==
  LET c == calls[p] IN
  /\ c.kind = "finalize" /\ c.pc = "finish"
  /\ c.ws.st = "ended" /\ c.ws.fd = "open" /\ c.ws.buf = <<>>
  /\ calls' = [calls EXCEPT ![p] =
       [c EXCEPT !.ws = [c.ws EXCEPT !.st = "destroyed", !.fd = "closed"],
                 !.finished = TRUE, !.pc = "rm"]]
  /\ UNCHANGED <<fs, ncalls, latest, produced>>

\* 'error' on the stream: with the listener of line 45 attached the promise
\* rejects and the finally block runs; with no listener the event is an
\* uncaught exception and the handler never returns
OnStreamError(c) ==
  IF c.pc = "finish"
    THEN [c EXCEPT !.error = "Stream error", !.cause = "Stream error",
                   !.ws = StreamFailed(c.ws), !.pc = "rm"]
    ELSE [c EXCEPT !.error = "Uncaught stream error", !.cause = "Uncaught stream error",
                   !.ws = StreamFailed(c.ws), !.pc = "crashed"]

\* the open that createWriteStream started completes
StreamOpened(p, ok) ==
  LET c0 == calls[p]
      ws == c0.ws
      c == Counted(c0, ok)
      can == CanOpenW(fs, c.finalFilePath)
  IN
  /\ ws.fd = "opening"
  /\ ok \/ can
  /\ IF ok /\ can
       THEN /\ fs' = OpenW(fs, c.finalFilePath)
            /\ calls' = [calls EXCEPT ![p] =
                 [c EXCEPT !.ops = c.ops \cup {Op("open", c.finalFilePath)},
                           !.ws = IF ws.st = "destroyed"
                                    THEN [ws EXCEPT !.fd = "closed"]
                                    ELSE [ws EXCEPT !.fd = "open",
                                                    !.inflight = Len(ws.buf)]]]
       ELSE /\ fs' = fs
            /\ calls' = [calls EXCEPT ![p] =
                 IF ws.st = "destroyed"
                   THEN [c EXCEPT !.ws = StreamFailed(ws), !.faulted = c.faulted \/ ~ok]
                   ELSE OnStreamError([c EXCEPT !.faulted = c.faulted \/ ~ok])]
  /\ UNCHANGED <<ncalls, latest, produced>>

\* the write under way completes: its chunks are in the file, and a live
\* stream hands over what was buffered meanwhile
StreamWritten(p, ok) ==
  LET c0 == calls[p]
      ws == c0.ws
      c == Counted(c0, ok)
      bytes == Flatten(SubSeq(ws.buf, 1, ws.inflight))
      rest == SubSeq(ws.buf, ws.inflight + 1, Len(ws.buf))
  IN
  /\ ws.fd = "open" /\ ws.inflight > 0
  /\ IF ok
       THEN /\ fs' = PWrite(fs, c.finalFilePath, ws.pos, bytes)
            /\ calls' = [calls EXCEPT ![p] =
                 [c EXCEPT !.ops = c.ops \cup {Op("write", c.finalFilePath)},
                           !.ws = [ws EXCEPT !.pos = ws.pos + Len(bytes),
                                             !.buf = rest,
                                             !.inflight = IF ws.st = "destroyed" THEN 0
                                                          ELSE Len(rest),
                                             !.fd = IF ws.st = "destroyed" THEN "closed"
                                                    ELSE "open"]]]
       ELSE /\ fs' = fs
            /\ calls' = [calls EXCEPT ![p] =
                 IF ws.st = "destroyed"
                   THEN [c EXCEPT !.ws = StreamFailed(ws), !.faulted = TRUE]
                   ELSE OnStreamError([c EXCEPT !.faulted = TRUE])]
  /\ UNCHANGED <<ncalls, latest, produced>>

\* after the rm of the finally block: route.ts lets a failed rm throw,
\* the other assembler logs it; a pending or new exception reaches the
\* outer catch, which calls rm again
AfterCleanup(c, ok) ==
  LET thrown == IF c.impl = "route.ts" /\ ~ok THEN "rm failed" ELSE c.error IN
  IF thrown = "none"
    THEN Respond(c, "success", 200)
    ELSE [c EXCEPT !.error = thrown,
                   !.cause = IF c.cause = "none" THEN thrown ELSE c.cause,
                   !.pc = "rm2"]

\* await rm(tempDir, { recursive: true, force: true }) of the finally block
FinalizeRm(p, ok) ==
  LET c == Counted(calls[p], ok) IN
  /\ c.kind = "finalize" /\ c.pc = "rm"
  /\ fs' = IF ok THEN RmRf(fs, c.tempDir) ELSE fs
  /\ calls' = [calls EXCEPT ![p] =
       AfterCleanup([c EXCEPT !.ops = IF ok /\ Exists(fs, c.tempDir)
                                        THEN c.ops \cup {Op("rm", c.tempDir)} ELSE c.ops,
                              !.rms = Append(c.rms, ok)], ok)]
  /\ produced' =
       IF calls'[p].response = "success" /\ IsFile(fs', c.finalFilePath)
         THEN [k \in DOMAIN produced \cup {c.finalFilePath} |->
                 IF k = c.finalFilePath
                   THEN [data |-> fs'[k].data, totalChunks |-> c.totalChunks]
                   ELSE produced[k]]
         ELSE produced
  /\ UNCHANGED <<ncalls, latest>>

\* the rm of the outer catch, its own failure swallowed, then the 500
FinalizeRm2(p, ok) ==
  LET c == Counted(calls[p], ok) IN
  /\ c.kind = "finalize" /\ c.pc = "rm2"
  /\ fs' = IF ok THEN RmRf(fs, c.tempDir) ELSE fs
  /\ calls' = [calls EXCEPT ![p] =
       Respond([c EXCEPT !.ops = IF ok /\ Exists(fs, c.tempDir)
                                   THEN c.ops \cup {Op("rm", c.tempDir)} ELSE c.ops,
                         !.rms = Append(c.rms, ok)], "Assembly failed", 500)]
  /\ UNCHANGED <<ncalls, latest, produced>>

\* ------------------------------------------------------------ specification
Next ==
  \E p \in {q \in Procs : FreeSlot(q)} :
    \/ \E r \in ReceiveRequests :
         BeginReceive(p, r.file, r.chunkIndex, r.uploadId)
    \/ ReceiveMkdir(p)
    \/ ReceiveOpen(p)
    \/ ReceiveWrite(p)
    \/ \E r \in FinalizeRequests :
         BeginFinalize(p, r.impl, r.uploadId, r.fileName, r.totalChunks)
    \/ FinalizeMkdir(p)
    \/ FinalizeRead(p)
    \/ FinalizeFinish(p)
    \/ \E ok \in Outcomes(calls[p]) : StreamOpened(p, ok)
    \/ \E ok \in Outcomes(calls[p]) : StreamWritten(p, ok)
    \/ \E ok \in Outcomes(calls[p]) : FinalizeRm(p, ok)
    \/ \E ok \in Outcomes(calls[p]) : FinalizeRm2(p, ok)

Spec == Init /\ [][Next]_vars

\* ------------------------------------------------------------ overlapping requests
\* The server takes a request while another one awaits its I/O: the handlers
\* interleave at their awaits.  Requests overlap in pairs (a request arrives
\* when nothing is in progress, or while one request that arrived alone is),
\* every request keeps its own slot, and no I/O failure is injected.
\* Index 0 of one session is offered with both payloads, index 1 with one;
\* the session is finalized as a session of one chunk.
OverlapReceiveRequests ==
  {ReceiveRequest(File(b), <<"0">>, <<"s", "-", "1">>) : b \in Payloads}
  \cup {ReceiveRequest(File(<<7>>), <<"1">>, <<"s", "-", "1">>)}

OverlapFinalizeRequests ==
  {FinalizeRequest(m, <<"s", "-", "1">>, <<"o">>, Int_(1)) : m \in Impls}

InProgress == {q \in Procs : ~Settled(calls[q])}

NextSlot(p) ==
  /\ p = ncalls + 1
  /\ Cardinality(InProgress) < 2
  /\ \A q \in InProgress : calls[q].overlaps = {}

OverlapReceive(p, file, chunkIndex, uploadId) ==
  /\ NextSlot(p) /\ ncalls < MaxCalls
  /\ ncalls' = ncalls + 1
  /\ calls' = [calls EXCEPT ![p] =
       ReceiveStart([IdleCall EXCEPT !.kind = "receive", !.file = file,
                       !.chunkIndex = chunkIndex, !.uploadId = uploadId,
                       !.pre = fs, !.overlaps = InProgress])]
  /\ UNCHANGED <<fs, latest, produced>>

\* one of the two assemblers serves the route: every finalize of a behaviour
\* runs the same one
OverlapFinalize(p, impl, uploadId, fileName, totalChunks) ==
  /\ NextSlot(p) /\ ncalls < MaxCalls
  /\ \A q \in Procs : calls[q].kind = "finalize" => calls[q].impl = impl
  /\ ncalls' = ncalls + 1
  /\ calls' = [calls EXCEPT ![p] =
       FinalizeStart([IdleCall EXCEPT !.kind = "finalize", !.impl = impl,
                        !.uploadId = uploadId, !.fileName = fileName,
                        !.totalChunks = totalChunks, !.pre = fs,
                        !.overlaps = InProgress])]
  /\ UNCHANGED <<fs, latest, produced>>

NextOverlap ==
  \E p \in Procs :
    \/ \E r \in OverlapReceiveRequests :
         OverlapReceive(p, r.file, r.chunkIndex, r.uploadId)
    \/ ReceiveMkdir(p)
    \/ ReceiveOpen(p)
    \/ ReceiveWrite(p)
    \/ \E r \in OverlapFinalizeRequests :
         OverlapFinalize(p, r.impl, r.uploadId, r.fileName, r.totalChunks)
    \/ FinalizeMkdir(p)
    \/ FinalizeRead(p)
    \/ FinalizeFinish(p)
    \/ StreamOpened(p, TRUE)
    \/ StreamWritten(p, TRUE)
    \/ FinalizeRm(p, TRUE)
    \/ FinalizeRm2(p, TRUE)

SpecOverlap == Init /\ [][NextOverlap]_vars


\* ------------------------------------------------------------ vocabulary of the properties
\* a session id made only of [A-Za-z0-9_-], and not empty
WellFormedId(u) == u # <<>> /\ \A k \in 1..Len(u) : u[k] \in IdChars
\* a chunk count that is an integer of [1, MAX_CHUNKS]
CountInRange(v) == IsInteger(v) /\ 1 <= v.int /\ v.int <= MAX_CHUNKS
\* a destination name whose last segment names a file
PlainName(name) == Basename(name) \notin { <<>>, <<".">>, <<".", ".">> }

\* the staging directory of session u, its chunk file for index i, and the
\* destination file a name stands for
StagingDir(u) == Append(StagingRoot, u)
ChunkFile(u, i) == Append(StagingDir(u), <<"chunk_">> \o ToDigits(i))
DestFile(name) == Append(UploadsDir, Basename(name))

\* the latest accepted payloads of indices 0..n-1 of session u, in index
\* order, and the staged chunks 0..n-1 of u in file system f
RECURSIVE AcceptedBytes(_, _)
AcceptedBytes(u, n) ==
  IF n = 0 THEN <<>>
  ELSE AcceptedBytes(u, n - 1) \o latest[<<u, ToDigits(n - 1)>>].bytes
RECURSIVE StagedBytes(_, _, _)
StagedBytes(f, u, n) ==
  IF n = 0 THEN <<>> ELSE StagedBytes(f, u, n - 1) \o f[ChunkFile(u, n - 1)].data

\* every index 0..n-1 of session u has been accepted and is staged in f
AllAccepted(f, u, n) ==
  \A i \in 0..(n - 1) :
    /\ <<u, ToDigits(i)>> \in DOMAIN latest
    /\ IsFile(f, ChunkFile(u, i))

Finalize(c) == c.kind = "finalize"
Receive(c) == c.kind = "receive"
\* the handler has returned and its stream has closed
Returned(c) == c.pc = "done" /\ Settled(c)
RmFailed(c) == \E k \in 1..Len(c.rms) : ~c.rms[k]
RmWorked(c) == \E k \in 1..Len(c.rms) : c.rms[k]
NoFailure(c) == ~c.faulted /\ ~RmFailed(c)
\* the call got past the session-existence check
PastSessionCheck(c) == Finalize(c) /\ c.ws.st # "none"

\* ------------------------------------------------------------ C1
\* C1: round trip.  A finalize of a well-formed session id with a count n in
\* range and a plain destination name, called when every index 0..n-1 has
\* been accepted and nothing else runs, and met by no infrastructure
\* failure, returns success and leaves the destination file holding the
\* accepted payloads in ascending index order.
C1_RoundTrip ==
  \A p \in Procs :
    LET c == calls[p] IN
    ( /\ Finalize(c) /\ Returned(c) /\ NoFailure(c)
      /\ WellFormedId(c.uploadId) /\ CountInRange(c.totalChunks)
      /\ PlainName(c.fileName)
      /\ AllAccepted(c.pre, c.uploadId, c.totalChunks.int) )
    => /\ c.response = "success"
       /\ IsFile(fs, DestFile(c.fileName))
       /\ fs[DestFile(c.fileName)].data = AcceptedBytes(c.uploadId, c.totalChunks.int)

\* two chunks of different lengths, assembled with the longer one first
C1_Witness ==
  \E p \in Procs :
    LET c == calls[p] IN
    /\ Finalize(c) /\ Returned(c) /\ NoFailure(c)
    /\ WellFormedId(c.uploadId) /\ PlainName(c.fileName)
    /\ c.totalChunks = Int_(2)
    /\ AllAccepted(c.pre, c.uploadId, 2)
    /\ c.response = "success"
    /\ fs[DestFile(c.fileName)].data = <<8, 9, 7>>

C3_BadIdRejected ==
  \A p \in Procs :
    LET c == calls[p] IN
    ((Receive(c) \/ Finalize(c)) /\ ~WellFormedId(c.uploadId))
    => /\ c.ops = {}
       /\ c.pc = "done" => (c.status = 400 /\ fs = c.pre)


\* ------------------------------------------------------------ C4
\* C4 as stated: a finalize whose totalChunks is not an integer of
\* [1, MAX_CHUNKS] fails with "Invalid totalChunks" and changes nothing in
\* the file system.
C4_BadCountRejected ==
  \A p \in Procs :
    LET c == calls[p] IN
    (Finalize(c) /\ ~CountInRange(c.totalChunks))
    => /\ c.ops = {}
       /\ c.pc = "done" => (c.response = "Invalid totalChunks" /\ fs = c.pre)

\* ------------------------------------------------------------ C5
\* C5 as stated: a finalize with a count in range on a well-formed session
\* id whose staging directory does not exist returns "Upload session not
\* found" and changes nothing in the file system.
C5_NoSessionNoEffect ==
  \A p \in Procs :
    LET c == calls[p] IN
    ( /\ Finalize(c) /\ CountInRange(c.totalChunks) /\ WellFormedId(c.uploadId)
      /\ ~Exists(c.pre, StagingDir(c.uploadId)) )
    => /\ c.ops = {}
       /\ c.pc = "done" => (c.response = "Upload session not found" /\ fs = c.pre)

\* ------------------------------------------------------------ C6
\* the smallest index of 0..n-1 with no chunk file in f, or n when none
RECURSIVE FirstMissing(_, _, _, _)
FirstMissing(f, u, i, n) ==
  IF i >= n \/ ~Exists(f, ChunkFile(u, i)) THEN i ELSE FirstMissing(f, u, i + 1, n)

\* a finalize of an existing session with a chunk missing, with a count in
\* range and a plain name, has returned; no stream failure was injected
MissingChunkCase(c) ==
  /\ Finalize(c) /\ Returned(c) /\ ~c.faulted
  /\ WellFormedId(c.uploadId) /\ CountInRange(c.totalChunks) /\ PlainName(c.fileName)
  /\ Exists(c.pre, StagingDir(c.uploadId))
  /\ FirstMissing(c.pre, c.uploadId, 0, c.totalChunks.int) < c.totalChunks.int

\* C6 as stated: with i the smallest absent index, finalize aborts at i,
\* answers "Assembly failed", and the destination file is left holding
\* exactly the bytes of chunks 0..i-1.
C6_ExactPrefix ==
  \A p \in Procs :
    LET c == calls[p]
        i == FirstMissing(c.pre, c.uploadId, 0, c.totalChunks.int)
    IN  MissingChunkCase(c)
        => /\ c.response = "Assembly failed" /\ c.cause = "Missing chunk" /\ c.i = i
           /\ IsFile(fs, DestFile(c.fileName))
           /\ fs[DestFile(c.fileName)].data = StagedBytes(c.pre, c.uploadId, i)

\* C6 as amended: with i the smallest absent index, finalize aborts at i,
\* answers "Assembly failed", no byte of a chunk with index >= i is
\* appended, and once the stream has closed the destination file is left,
\* not rolled back, holding the bytes of chunks 0..k-1 for some k <= i: the
\* chunks the stream had only buffered when the failure struck are dropped.
C6_SomePrefix ==
  \A p \in Procs :
    LET c == calls[p]
        i == FirstMissing(c.pre, c.uploadId, 0, c.totalChunks.int)
    IN  MissingChunkCase(c)
        => /\ c.response = "Assembly failed" /\ c.cause = "Missing chunk" /\ c.i = i
           /\ IsFile(fs, DestFile(c.fileName))
           /\ \E k \in 0..i :
                fs[DestFile(c.fileName)].data = StagedBytes(c.pre, c.uploadId, k)

\* chunk 1 is the first one missing, and chunk 0 is what the destination
\* holds, where an earlier file of the same name held something else
C6_Witness ==
  \E p \in Procs :
    LET c == calls[p] IN
    /\ MissingChunkCase(c)
    /\ FirstMissing(c.pre, c.uploadId, 0, c.totalChunks.int) = 1
    /\ c.response = "Assembly failed"
    /\ fs[DestFile(c.fileName)].data = StagedBytes(c.pre, c.uploadId, 1)
    /\ fs[DestFile(c.fileName)].data # <<>>

\* ------------------------------------------------------------ C7
\* C7 as stated: the path finalize opens for writing is a file directly
\* under the destination root, whatever the destination name.
C7_InsideRoot ==
  \A p \in Procs :
    LET c == calls[p] IN
    PastSessionCheck(c)
    => /\ Len(c.finalFilePath) = Len(UploadsDir) + 1
       /\ IsPrefix(UploadsDir, c.finalFilePath)

\* ------------------------------------------------------------ C8
\* C8 as stated: in both assemblers, when the deletion of the staging
\* directory fails, a finalize (of a well-formed request) whose assembly
\* completed still returns success, and one whose assembly failed still
\* returns "Assembly failed".
C8_CleanupNeverMasks ==
  \A p \in Procs :
    LET c == calls[p] IN
    ( /\ Finalize(c) /\ c.pc = "done" /\ RmFailed(c)
      /\ WellFormedId(c.uploadId) /\ CountInRange(c.totalChunks)
      /\ PlainName(c.fileName) )
    => c.response = (IF c.finished THEN "success" ELSE "Assembly failed")

\* ------------------------------------------------------------ C9
\* C9: last writer wins.  A receive that returned success leaves its chunk
\* file holding exactly its payload, whatever an earlier receive of the same
\* session and index had put there; and a finalize that then returns
\* success leaves the destination holding, at each index, the payload
\* accepted last for it and nothing of the earlier ones.
C9_LastWriterWins ==
  \A p \in Procs :
    LET c == calls[p] IN
    /\ (Receive(c) /\ c.pc = "done" /\ c.response = "success")
       => LET chunkFile == Append(StagingDir(c.uploadId), <<"chunk_">> \o c.chunkIndex)
          IN  IsFile(fs, chunkFile) /\ fs[chunkFile].data = c.file.bytes
    /\ ( /\ Finalize(c) /\ Returned(c) /\ c.response = "success"
         /\ WellFormedId(c.uploadId) /\ CountInRange(c.totalChunks)
         /\ PlainName(c.fileName) )
       => fs[DestFile(c.fileName)].data = AcceptedBytes(c.uploadId, c.totalChunks.int)

\* a destination assembled from a chunk that had been accepted twice, the
\* first time with a longer payload
C9_Witness ==
  \E p \in Procs :
    LET c == calls[p] IN
    /\ Finalize(c) /\ Returned(c) /\ c.response = "success"
    /\ WellFormedId(c.uploadId) /\ c.totalChunks = Int_(1) /\ PlainName(c.fileName)
    /\ latest[<<c.uploadId, <<"0">> >>] = [bytes |-> <<7>>, replaced |-> TRUE]
    /\ fs[DestFile(c.fileName)].data = <<7>>

\* ------------------------------------------------------------ C10
DigitsOnly(x) == x # <<>> /\ \A k \in 1..Len(x) : x[k] \in Digits

\* C10 as stated: a receive whose chunkIndex is not a string of digits is
\* rejected with "Invalid chunkIndex", one whose payload is absent or empty
\* is rejected as missing, and neither writes to the file system.
C10_EmptyPayloadRejected ==
  \A p \in Procs :
    LET c == calls[p] IN
    (Receive(c) /\ (~DigitsOnly(c.chunkIndex) \/ ~c.file.present \/ c.file.bytes = <<>>))
    => /\ c.ops = {}
       /\ c.pc = "done" => (c.status = 400 /\ fs = c.pre)

\* C10 as amended: a receive whose chunkIndex is not a string of digits is
\* rejected ("Invalid chunkIndex" when the other fields pass, "Missing
\* fields" when it is empty), one whose payload is absent is rejected with
\* "Missing fields", and neither writes to the file system; a payload that
\* is present and empty is accepted.
C10_CallerErrorsNoEffect ==
  \A p \in Procs :
    LET c == calls[p] IN
    /\ (Receive(c) /\ (~DigitsOnly(c.chunkIndex) \/ ~c.file.present))
       => /\ c.ops = {}
          /\ c.pc = "done"
             => /\ c.status = 400 /\ fs = c.pre
                /\ ~c.file.present => c.response = "Missing fields"
                /\ (c.file.present /\ c.chunkIndex # <<>> /\ WellFormedId(c.uploadId))
                   => c.response = "Invalid chunkIndex"
    /\ ( /\ Receive(c) /\ c.pc = "done" /\ c.file.present /\ c.file.bytes = <<>>
         /\ DigitsOnly(c.chunkIndex) /\ WellFormedId(c.uploadId) )
       => c.response = "success"

\* a receive rejected for its chunk index while its session is staged
C10_Witness ==
  \E p \in Procs :
    LET c == calls[p] IN
    /\ Receive(c) /\ c.pc = "done" /\ ~DigitsOnly(c.chunkIndex)
    /\ c.response = "Invalid chunkIndex"
    /\ Exists(fs, StagingDir(c.uploadId))
    /\ c.ops = {} /\ fs = c.pre

\* ------------------------------------------------------------ C11
\* the chunk file a receive is meant to fill, and a receive that returned
\* success
ChunkFileOf(c) == Append(StagingDir(c.uploadId), <<"chunk_">> \o c.chunkIndex)
Accepted(c) == Receive(c) /\ c.pc = "done" /\ c.response = "success"
SameChunk(a, b) == a.uploadId = b.uploadId /\ a.chunkIndex = b.chunkIndex
\* no finalize has been called, and no receive but p and q is for the chunk
\* of p or of q
OnlyThese(p, q) ==
  \A r \in Procs :
    /\ ~Finalize(calls[r])
    /\ (r \notin {p, q} /\ Receive(calls[r]))
       => ~SameChunk(calls[r], calls[p]) /\ ~SameChunk(calls[r], calls[q])
\* what a receive may change: its staging directory and its chunk file
OwnOps(c) ==
  {Op("mkdir", StagingDir(c.uploadId)), Op("open", ChunkFileOf(c)),
   Op("write", ChunkFileOf(c))}

\* C11: however two receives for different indices of one session
\* interleave, once both have returned success the staging directory
\* exists, each chunk file holds exactly the payload of its receive, and
\* neither receive has changed anything but the staging directory and its
\* own chunk file.
C11_DisjointReceives ==
  \A p, q \in Procs :
    LET a == calls[p]
        b == calls[q]
    IN  ( /\ p # q /\ Accepted(a) /\ Accepted(b)
          /\ a.uploadId = b.uploadId /\ a.chunkIndex # b.chunkIndex
          /\ OnlyThese(p, q) )
        => /\ IsDir(fs, StagingDir(a.uploadId))
           /\ IsFile(fs, ChunkFileOf(a)) /\ fs[ChunkFileOf(a)].data = a.file.bytes
           /\ IsFile(fs, ChunkFileOf(b)) /\ fs[ChunkFileOf(b)].data = b.file.bytes
           /\ a.ops \subseteq OwnOps(a) /\ b.ops \subseteq OwnOps(b)

\* the second receive arrived while the first had opened its chunk file and
\* not yet written it
C11_Witness ==
  \E p, q \in Procs :
    LET a == calls[p]
        b == calls[q]
    IN  /\ p # q /\ Accepted(a) /\ Accepted(b)
        /\ a.uploadId = b.uploadId /\ a.chunkIndex # b.chunkIndex
        /\ OnlyThese(p, q)
        /\ IsFile(b.pre, ChunkFileOf(a)) /\ b.pre[ChunkFileOf(a)].data # a.file.bytes
        /\ ~Exists(a.pre, StagingDir(a.uploadId))
        /\ fs[ChunkFileOf(a)].data = a.file.bytes
        /\ fs[ChunkFileOf(b)].data = b.file.bytes

\* ------------------------------------------------------------ C12
\* the payloads sent to session u so far
PayloadsSent(u) ==
  {calls[r].file.bytes : r \in {x \in Procs : Receive(calls[x]) /\ calls[x].uploadId = u}}

\* C12 as stated: however two receives for the same session and index
\* interleave, once both have returned success the chunk file holds exactly
\* the payload of one of them; and what a finalize has read from a chunk
\* file is always a whole payload sent for its session.
C12_AtomicReplace ==
  /\ \A p, q \in Procs :
       LET a == calls[p]
           b == calls[q]
       IN  ( /\ p # q /\ Accepted(a) /\ Accepted(b) /\ SameChunk(a, b)
             /\ OnlyThese(p, q) )
           => /\ IsFile(fs, ChunkFileOf(a))
              /\ fs[ChunkFileOf(a)].data \in {a.file.bytes, b.file.bytes}
  /\ \A p \in Procs :
       LET c == calls[p] IN
       Finalize(c)
       => \A k \in 1..Len(c.ws.buf) : c.ws.buf[k] \in PayloadsSent(c.uploadId)

\* ------------------------------------------------------------ C13
\* a finalize of a well-formed request that began when every chunk it asks
\* for was accepted and staged
OnFullSession(c) ==
  /\ Finalize(c)
  /\ WellFormedId(c.uploadId) /\ CountInRange(c.totalChunks) /\ PlainName(c.fileName)
  /\ AllAccepted(c.pre, c.uploadId, c.totalChunks.int)
\* request q, another finalize of the same staging directory, has deleted it
DeletedBy(q, c) ==
  /\ Finalize(calls[q]) /\ calls[q].tempDir = c.tempDir
  /\ Op("rm", c.tempDir) \in calls[q].ops
\* the outcome of a chunk found missing: by existsSync, or by readFile
ChunkGone(c) == c.response = "Assembly failed" /\ c.cause \in {"Missing chunk", "ENOENT"}

\* C13: finalize calls that overlap on one session are unsafe.  A finalize
\* that began on a fully accepted session fails only when another finalize
\* of the same session has deleted the staging directory meanwhile: it then
\* answers "Upload session not found" or, past the existence check,
\* "Assembly failed" for a chunk that is gone.  (That such a failure does
\* happen is the witness.)
C13_FailsOnlyByRace ==
  \A p \in Procs :
    LET c == calls[p] IN
    (OnFullSession(c) /\ c.pc = "done" /\ c.response # "success")
    => /\ \E q \in Procs \ {p} : DeletedBy(q, c)
       /\ IF PastSessionCheck(c) THEN ChunkGone(c)
          ELSE c.response = "Upload session not found"

\* two finalize calls began on the fully accepted session and passed the
\* existence check; one deleted the staging directory and returned success,
\* the other failed on the chunk that was gone
C13_Witness ==
  \E p, q \in Procs :
    LET c == calls[p]
        d == calls[q]
    IN  /\ p # q
        /\ OnFullSession(c) /\ PastSessionCheck(c) /\ c.pc = "done" /\ ChunkGone(c)
        /\ OnFullSession(d) /\ PastSessionCheck(d) /\ d.pc = "done"
        /\ d.response = "success" /\ DeletedBy(q, c)

\* ------------------------------------------------------------ C14
\* C14 as stated: a finalize (of a well-formed request) that has started
\* streaming never stops without a result, also when the destination stream
\* reports an error during the chunk loop or after it, and it has attempted
\* the deletion of the staging directory when it returns.
C14_RunsToCompletion ==
  \A p \in Procs :
    LET c == calls[p] IN
    ( /\ PastSessionCheck(c)
      /\ WellFormedId(c.uploadId) /\ CountInRange(c.totalChunks)
      /\ PlainName(c.fileName) )
    => /\ c.pc # "crashed"
       /\ c.pc = "done" => Len(c.rms) >= 1

\* ------------------------------------------------------------ C15
\* C15 as stated: whatever the session id, the staging directory a finalize
\* reads and deletes is the one of the session named exactly by that id,
\* and when it has returned, the staging root and everything staged for
\* other sessions are as they were.
C15_OwnSessionOnly ==
  \A p \in Procs :
    LET c == calls[p]
        own == StagingDir(c.uploadId)
    IN  Finalize(c)
        => /\ PastSessionCheck(c) => c.tempDir = own
           /\ \A o \in c.ops : o.op = "rm" => o.path = own
           /\ c.pc = "done"
              => \A path \in DOMAIN c.pre :
                   (IsPrefix(StagingRoot, path) /\ ~IsPrefix(own, path))
                   => Exists(fs, path) /\ fs[path] = c.pre[path]

\* ------------------------------------------------------------ C16
\* the integer a string of digits stands for
RECURSIVE DigitsValue(_)
DigitsValue(x) ==
  IF x = <<>> THEN 0
  ELSE 10 * DigitsValue(SubSeq(x, 1, Len(x) - 1))
         + (CHOOSE d \in 0..9 : DigitSeq[d + 1] = x[Len(x)])

\* C16 as stated: the chunk file a receive has written for an index,
\* written with leading zeros or not, is the file the assembler looks up
\* for the integer value of that index; and a finalize reports no chunk
\* missing at an index for which a chunk was accepted and is still staged
\* when it begins.
C16_SameChunkName ==
  \A p \in Procs :
    LET c == calls[p] IN
    /\ (Accepted(c) /\ DigitsOnly(c.chunkIndex))
       => Op("write", AssemblerChunkPath(c.tempDir, DigitsValue(c.chunkIndex))) \in c.ops
    /\ (Finalize(c) /\ WellFormedId(c.uploadId) /\ c.cause = "Missing chunk")
       => ~\E key \in DOMAIN latest :
            /\ key[1] = c.uploadId /\ DigitsValue(key[2]) = c.i
            /\ IsFile(c.pre, Append(StagingDir(c.uploadId), <<"chunk_">> \o key[2]))

\* ------------------------------------------------------------ C17
\* finalize c names a destination that held, when c began, what an earlier
\* finalize (with a count in range) that returned success had produced
OverEarlierResult(c) ==
  LET D == DestFile(c.fileName) IN
  /\ Finalize(c) /\ PlainName(c.fileName)
  /\ D \in DOMAIN produced /\ CountInRange(produced[D].totalChunks)
  /\ IsFile(c.pre, D) /\ c.pre[D].data = produced[D].data

\* C17 as stated: when a finalize (of a well-formed request) fails on a
\* missing chunk, with no I/O failure of its own, and its destination held,
\* when it began, what an earlier finalize (with a count in range) that
\* returned success had produced, the destination holds the same bytes once
\* the failed finalize has returned and its stream has closed.
C17_EarlierResultKept ==
  \A p \in Procs :
    LET c == calls[p]
        D == DestFile(c.fileName)
    IN  ( /\ Finalize(c) /\ Returned(c) /\ c.response = "Assembly failed"
          /\ c.cause = "Missing chunk" /\ NoFailure(c)
          /\ WellFormedId(c.uploadId) /\ CountInRange(c.totalChunks)
          /\ PlainName(c.fileName)
          /\ D \in DOMAIN produced /\ CountInRange(produced[D].totalChunks)
          /\ IsFile(c.pre, D) /\ c.pre[D].data = produced[D].data )
        => IsFile(fs, D) /\ fs[D].data = produced[D].data

\* C17 as amended: a finalize that is rejected before it opens the
\* destination ("Invalid totalChunks", "Upload session not found") leaves
\* the earlier result unchanged; one that fails on a missing chunk past the
\* session check has truncated the destination, which is left holding the
\* bytes of the chunks 0..k-1 of the failed call for some k up to the
\* missing index, not the earlier result.
C17_KeptUnlessOpened ==
  \A p \in Procs :
    LET c == calls[p]
        D == DestFile(c.fileName)
        i == FirstMissing(c.pre, c.uploadId, 0, c.totalChunks.int)
    IN  OverEarlierResult(c)
        => /\ ( /\ c.pc = "done"
                /\ c.response \in {"Invalid totalChunks", "Upload session not found"} )
              => IsFile(fs, D) /\ fs[D].data = produced[D].data
           /\ MissingChunkCase(c)
              => /\ IsFile(fs, D)
                 /\ \E k \in 0..i : fs[D].data = StagedBytes(c.pre, c.uploadId, k)

\* a finalize failed on missing chunk 1 and left the destination empty,
\* where it held the one chunk an earlier finalize had assembled
C17_Witness ==
  \E p \in Procs :
    LET c == calls[p]
        D == DestFile(c.fileName)
    IN  /\ OverEarlierResult(c) /\ MissingChunkCase(c)
        /\ produced[D].data # <<>>
        /\ IsFile(fs, D) /\ fs[D].data = <<>>

\* ------------------------------------------------------------ C18
\* every request has returned and every stream has closed
AllReturned == \A q \in Procs : calls[q].pc \in {"idle", "done"} /\ Settled(calls[q])
\* requests p and q were in progress at the same time
Overlapped(p, q) == p \in calls[q].overlaps \/ q \in calls[p].overlaps
\* finalize q began on a fully accepted session, and no receive was in
\* progress while it was
OnFinalSession(q) ==
  /\ OnFullSession(calls[q])
  /\ \A r \in Procs : Receive(calls[r]) => ~Overlapped(q, r)

\* C18 as stated: however finalize calls on fully accepted sessions that
\* name one destination interleave (with each other, not with a receive), once every call has returned, if one
\* of them returned success the destination holds the complete
\* concatenation of the chunks of a session whose finalize returned
\* success.
C18_SuccessMeansComplete ==
  \A p \in Procs :
    LET c == calls[p]
        D == DestFile(c.fileName)
        same == {q \in Procs : Finalize(calls[q]) /\ DestFile(calls[q].fileName) = D}
    IN  ( /\ AllReturned /\ Finalize(c) /\ c.response = "success"
          /\ \A q \in same : OnFinalSession(q) )
        => /\ IsFile(fs, D)
           /\ \E q \in same :
                /\ calls[q].response = "success"
                /\ fs[D].data = StagedBytes(calls[q].pre, calls[q].uploadId,
                                             calls[q].totalChunks.int)

=============================================================================
